---- MODULE Spec2Model ----
(***************************************************************************)
(* A model of openapi_tester/loaders.py: the schema loader's cache         *)
(* (get_schema / set_schema), the reference resolution it performs         *)
(* (dereference_schema with handle_recursion_limit / remove_recursive_ref),*)
(* the route indexer (get_response_schema_section) and the example         *)
(* synthesizer (create_dict_from_schema).                                  *)
(***************************************************************************)
EXTENDS Integers, Sequences, FiniteSets, TLC

VARIABLES
    disk,             \* the document load_schema() parses on every call
    schema,           \* BaseSchemaLoader.schema
    original_schema,  \* BaseSchemaLoader.original_schema
    validated,        \* the tree the last validate_schema call was given
    loads,            \* number of load_schema calls so far
    validations,      \* number of validate_schema calls so far
    result,           \* outcome of the last public call
    pc,               \* per-thread position inside get_schema
    local             \* per-thread local variables of get_schema/set_schema

vars == <<disk, schema, original_schema, validated, loads, validations,
          result, pc, local>>

-----------------------------------------------------------------------------
(* JSON values.  A Python dict is Dict(kv) with kv a function from keys to  *)
(* values, a str is Str(s), a bool is Bool(b).  Ptr(h, p) stands for a      *)
(* Python reference to the dict object that lives at path p of the object   *)
(* graph h: this is how an object returned by the recursion handler stays   *)
(* shared between the schema it was taken from and the resolver's output.   *)

Dict(kv) == [t |-> "dict", kv |-> kv]
Str(s) == [t |-> "str", s |-> s]
Bool(b) == [t |-> "bool", b |-> b]
Ptr(h, p) == [t |-> "ptr", h |-> h, p |-> p]
None == [t |-> "none"]
EmptyKV == <<>>
EmptyDict == Dict(EmptyKV)

IsDict(v) == v.t = "dict"
Has(v, k) == IsDict(v) /\ k \in DOMAIN v.kv

\* loaders.py:49, the marker that replaces a recursive $ref
Sentinel == Dict("x-recursive-ref-replaced" :> Bool(TRUE))

\* d[k1][k2]... on a tree without references; ok is FALSE on a KeyError
RECURSIVE PathGet(_, _)
PathGet(v, p) ==
    IF p = <<>> THEN [ok |-> TRUE, v |-> v]
    ELSE IF Has(v, Head(p)) THEN PathGet(v.kv[Head(p)], Tail(p))
    ELSE [ok |-> FALSE, v |-> None]

\* the tree v with the value at path p replaced by w (an in-place d[..][k] = w)
RECURSIVE PathSet(_, _, _)
PathSet(v, p, w) ==
    IF p = <<>> THEN w
    ELSE Dict([v.kv EXCEPT ![Head(p)] = PathSet(v.kv[Head(p)], Tail(p), w)])

-----------------------------------------------------------------------------
(* Reference strings.  TLC's strings are atomic, so the $ref strings that  *)
(* occur in the documents below are tabulated as their pieces: the          *)
(* separators '#' and '/' and the text between them.                        *)

DefsPrefix == <<"#", "/", "definitions", "/">>

Chars(s) ==
    CASE s = "#/definitions/A" -> DefsPrefix \o <<"A">>
      [] s = "#/definitions/B" -> DefsPrefix \o <<"B">>
      [] s = "#/definitions/C" -> DefsPrefix \o <<"C">>
      [] s = "#/definitions/Z" -> DefsPrefix \o <<"Z">>
      [] OTHER -> <<>>

\* urllib's ParseResult.fragment: what follows the first '#'
RECURSIVE Fragment(_)
Fragment(cs) ==
    IF cs = <<>> THEN <<>>
    ELSE IF Head(cs) = "#" THEN Tail(cs)
    ELSE Fragment(Tail(cs))

\* [key for key in fragment.split('/') if key]
RECURSIVE SplitKeys(_, _, _)
SplitKeys(cs, cur, acc) ==
    IF cs = <<>> THEN (IF cur = "" THEN acc ELSE Append(acc, cur))
    ELSE IF Head(cs) = "/"
         THEN SplitKeys(Tail(cs), "", IF cur = "" THEN acc ELSE Append(acc, cur))
         ELSE SplitKeys(Tail(cs), cur \o Head(cs), acc)

\* Python's `needle in hay` on strings
Contains(needle, hay) ==
    \E i \in 0..(Len(hay) - Len(needle)) : SubSeq(hay, i + 1, i + Len(needle)) = needle

-----------------------------------------------------------------------------
(* Object graphs.  st.raw is the object handed to the first                 *)
(* dereference_schema call (what load_schema returned); st.d1 is the object *)
(* the first call returned, which is handed to the second call.  st.d1 may  *)
(* hold Ptr("raw", p): dicts of the raw schema that the recursion handler   *)
(* returned and the resolver stored without copying.                        *)

\* copy.deepcopy: the plain tree an object graph value denotes
RECURSIVE Materialize(_, _)
Materialize(st, v) ==
    IF v.t = "ptr" THEN Materialize(st, PathGet(st[v.h], v.p).v)
    ELSE IF IsDict(v) THEN Dict([k \in DOMAIN v.kv |-> Materialize(st, v.kv[k])])
    ELSE v

\* definition = schema; for key in keys: definition = definition[key]
\* starting at the object at path p of graph h; the object found is named by
\* the graph and path where it lives.
RECURSIVE Locate(_, _, _, _)
Locate(st, h, p, keys) ==
    LET v == PathGet(st[h], p).v IN
    IF v.t = "ptr" THEN Locate(st, v.h, v.p, keys)
    ELSE IF keys = <<>> THEN [ok |-> TRUE, h |-> h, p |-> p]
    ELSE IF Has(v, Head(keys)) THEN Locate(st, h, Append(p, Head(keys)), Tail(keys))
    ELSE [ok |-> FALSE, h |-> h, p |-> p]

\* '$ref' in value.keys() and fragment in value['$ref']
IsRefTo(obj, fragment) ==
    /\ Has(obj, "$ref")
    /\ obj.kv["$ref"].t = "str"
    /\ Contains(fragment, Chars(obj.kv["$ref"].s))

\* remove_recursive_ref(schema, fragment), schema being the dict object at
\* path p of graph h; the dict is changed in place, so the result is the
\* new object graphs.
RECURSIVE RemoveRecursiveRef(_, _, _, _), RemoveRecursiveRefItems(_, _, _, _, _)
RemoveRecursiveRefItems(st, h, p, fragment, keys) ==
    IF keys = {} THEN st
    ELSE LET key == CHOOSE k \in keys : TRUE
             loc == Locate(st, h, Append(p, key), <<>>)
             value == PathGet(st[loc.h], loc.p).v
             st1 == IF ~IsDict(value) THEN st
                    ELSE IF IsRefTo(value, fragment)
                         THEN [st EXCEPT ![h] = PathSet(st[h], Append(p, key), Sentinel)]
                         ELSE RemoveRecursiveRef(st, loc.h, loc.p, fragment)
         IN RemoveRecursiveRefItems(st1, h, p, fragment, keys \ {key})

RemoveRecursiveRef(st, h, p, fragment) ==
    RemoveRecursiveRefItems(st, h, p, fragment, DOMAIN PathGet(st[h], p).v.kv)

\* handle_recursion_limit(schema)(iteration, parse_result, recursions), the
\* schema being graph h: the new graphs and the value handed to the resolver.
HandleRecursionLimit(st, h, refstring) ==
    LET fragment == Fragment(Chars(refstring))
        keys == SplitKeys(fragment, "", <<>>)
        loc == Locate(st, h, <<>>, keys)
    IN IF ~loc.ok THEN [st |-> st, v |-> EmptyDict]
       ELSE [st |-> RemoveRecursiveRef(st, loc.h, loc.p, fragment),
             v |-> Ptr(loc.h, loc.p)]

-----------------------------------------------------------------------------
(* prance's RefResolver as dereference_schema uses it (loaders.py:107-113): *)
(* the resolver works on a deep copy of the schema (specs), replaces every  *)
(* {"$ref": ...} dict by a resolved deep copy of its target, and, when a    *)
(* reference is met again while it is being resolved (recursion limit 1,    *)
(* the default), stores what the recursion_limit_handler returns instead.   *)

RecursionLimit == 1

IsRefNode(v) == Has(v, "$ref") /\ v.kv["$ref"].t = "str"

Occurrences(seq, x) == Cardinality({i \in DOMAIN seq : seq[i] = x})

\* RefResolver._resolve_partial on `node` (a part of specs), with the handler
\* bound to graph h: [v: the resolved value, st: the graphs after the
\* handler's calls, err: whether a ResolutionError was raised]
RECURSIVE ResolvePartial(_, _, _, _, _), ResolveItems(_, _, _, _, _, _, _)
ResolveItems(specs, h, node, recursions, st, keys, acc) ==
    IF keys = {} THEN [v |-> Dict(acc), st |-> st, err |-> FALSE]
    ELSE LET key == CHOOSE k \in keys : TRUE
             r == ResolvePartial(specs, h, node.kv[key], recursions, st)
         IN IF r.err THEN r
            ELSE ResolveItems(specs, h, node, recursions, r.st, keys \ {key},
                              [acc EXCEPT ![key] = r.v])

ResolvePartial(specs, h, node, recursions, st) ==
    IF IsRefNode(node)
    THEN LET refstring == node.kv["$ref"].s
             obj_path == SplitKeys(Fragment(Chars(refstring)), "", <<>>)
         IN IF Occurrences(recursions, obj_path) >= RecursionLimit
            THEN LET handled == HandleRecursionLimit(st, h, refstring)
                 IN [v |-> handled.v, st |-> handled.st, err |-> FALSE]
            ELSE LET target == PathGet(specs, obj_path)
                 IN IF ~target.ok THEN [v |-> None, st |-> st, err |-> TRUE]
                    ELSE ResolvePartial(specs, h, target.v,
                                        Append(recursions, obj_path), st)
    ELSE IF IsDict(node)
    THEN ResolveItems(specs, h, node, recursions, st, DOMAIN node.kv, node.kv)
    ELSE [v |-> node, st |-> st, err |-> FALSE]

\* BaseSchemaLoader.dereference_schema(schema), schema being graph h.
\* err stands for OpenAPISchemaError('infinite recursion error').
DereferenceSchema(st, h) ==
    LET specs == Materialize(st, st[h])
    IN ResolvePartial(specs, h, specs, <<>>, st)

-----------------------------------------------------------------------------
(* validate_schema.  The validators are openapi_spec_validator's; of the    *)
(* OpenAPI meta-schemas they enforce, the model keeps the required keys     *)
(* that the route indexer later reads: the document's `info` and `paths`    *)
(* (and `swagger` for v2), and each operation's non-empty `responses`.      *)

OperationKeys(path_item) == {k \in DOMAIN path_item.kv : k # "parameters"}

OperationsOK(paths) ==
    \A route \in DOMAIN paths.kv :
        /\ IsDict(paths.kv[route])
        /\ \A m \in OperationKeys(paths.kv[route]) :
              LET operation == paths.kv[route].kv[m]
              IN /\ Has(operation, "responses")
                 /\ IsDict(operation.kv["responses"])
                 /\ DOMAIN operation.kv["responses"].kv # {}

MetaSchemaV3(tree) ==
    /\ Has(tree, "info") /\ Has(tree, "paths")
    /\ IsDict(tree.kv["paths"]) /\ OperationsOK(tree.kv["paths"])

MetaSchemaV2(tree) ==
    /\ Has(tree, "swagger") /\ Has(tree, "info") /\ Has(tree, "paths")
    /\ IsDict(tree.kv["paths"]) /\ OperationsOK(tree.kv["paths"])

\* validate_schema(schema): TRUE when validator.validate returns, FALSE when
\* it raises
ValidateSchema(tree) ==
    IF Has(tree, "openapi") THEN MetaSchemaV3(tree) ELSE MetaSchemaV2(tree)

-----------------------------------------------------------------------------
(* set_schema(schema), schema being the object load_schema returned.        *)
(* exc: the exception raised ("" when none); schema, original_schema: the   *)
(* attributes assigned (None when the assignment is not reached);           *)
(* validated: the tree handed to validate_schema; validations: 1 when       *)
(* validate_schema was called.                                              *)

\* loaders.py:131-132: original_schema and schema are assigned; r2 is what
\* the second dereference_schema call gave
CacheSchema(dereferenced_schema, r2) ==
    IF r2.err
    THEN [exc |-> "OpenAPISchemaError", schema |-> None,
          original_schema |-> r2.st.raw,
          validated |-> dereferenced_schema, validations |-> 1]
    ELSE [exc |-> "", schema |-> Materialize(r2.st, r2.v),
          original_schema |-> r2.st.raw,
          validated |-> dereferenced_schema, validations |-> 1]

\* loaders.py:130-132, dereferenced_schema being the value of graph st1.d1
ValidateAndCache(st1, dereferenced_schema) ==
    IF ~ValidateSchema(dereferenced_schema)
    THEN [exc |-> "OpenAPIValidationError", schema |-> None,
          original_schema |-> None,
          validated |-> dereferenced_schema, validations |-> 1]
    ELSE CacheSchema(dereferenced_schema, DereferenceSchema(st1, "d1"))

\* the graphs once the first dereference_schema call has returned r1.v
AfterFirstDereference(r1) == [raw |-> r1.st.raw, d1 |-> r1.v]

\* loaders.py:129-132, r1 being what the first dereference_schema call gave
SetSchemaFrom(r1) ==
    IF r1.err
    THEN [exc |-> "OpenAPISchemaError", schema |-> None, original_schema |-> None,
          validated |-> None, validations |-> 0]
    ELSE ValidateAndCache(AfterFirstDereference(r1),
                          Materialize(AfterFirstDereference(r1), r1.v))

SetSchema(raw) == SetSchemaFrom(DereferenceSchema([raw |-> raw, d1 |-> None], "raw"))

-----------------------------------------------------------------------------
(* Arguments of get_response_schema_section.  A Python int is IntVal(n).       *)

IntVal(n) == [t |-> "int", n |-> n]

\* str.lower() and str.upper() on the method names and path-item keys used
Lower(s) ==
    CASE s = "GET" -> "get"
      [] s = "Post" -> "post"
      [] s = "POST" -> "post"
      [] OTHER -> s

Upper(s) ==
    CASE s = "get" -> "GET"
      [] s = "post" -> "POST"
      [] s = "Post" -> "POST"
      [] s = "put" -> "PUT"
      [] s = "patch" -> "PATCH"
      [] s = "options" -> "OPTIONS"
      [] s = "head" -> "HEAD"
      [] s = "trace" -> "TRACE"
      [] s = "delete" -> "DELETE"
      [] s = "parameters" -> "PARAMETERS"
      [] OTHER -> s

Digit(d) ==
    CASE d = 0 -> "0" [] d = 1 -> "1" [] d = 2 -> "2" [] d = 3 -> "3" [] d = 4 -> "4"
      [] d = 5 -> "5" [] d = 6 -> "6" [] d = 7 -> "7" [] d = 8 -> "8" [] d = 9 -> "9"

\* str(n) for a non-negative int
RECURSIVE NatToStr(_)
NatToStr(n) == IF n < 10 THEN Digit(n) ELSE NatToStr(n \div 10) \o Digit(n % 10)

\* str(status_code)
PyStr(v) == IF v.t = "int" THEN NatToStr(v.n) ELSE v.s

\* int(status_code): ok is FALSE when int() raises
PyInt(v) ==
    IF v.t = "int" THEN [ok |-> TRUE, n |-> v.n]
    ELSE IF v.t # "str" THEN [ok |-> FALSE, n |-> 0]
    ELSE CASE v.s = "200" -> [ok |-> TRUE, n |-> 200]
           [] v.s = "99" -> [ok |-> TRUE, n |-> 99]
           [] OTHER -> [ok |-> FALSE, n |-> 0]

\* The outcome of a call: the value returned or the exception raised.
NoExc == [type |-> ""]
Returned(v) == [outcome |-> "return", value |-> v, exc |-> NoExc]
Raised(e) == [outcome |-> "raise", value |-> None, exc |-> e]

ImproperlyConfigured(about) == [type |-> "ImproperlyConfigured", about |-> about]

\* validate_method
HttpMethods == {"get", "post", "put", "patch", "delete", "options", "head"}

ValidateMethod(method) ==
    IF method.t # "str" \/ Lower(method.s) \notin HttpMethods
    THEN Raised(ImproperlyConfigured("method"))
    ELSE Returned(method)

\* validate_string
ValidateString(string, name) ==
    IF string.t # "str" THEN Raised(ImproperlyConfigured(name)) ELSE Returned(None)

\* validate_status_code
MinStatusCode == 100
MaxStatusCode == 505

\* validate_status_code without the range check of loaders.py:266
AnyIntegerStatusCode(status_code) ==
    IF ~PyInt(status_code).ok THEN Raised(ImproperlyConfigured("status_code"))
    ELSE Returned(None)

ValidateStatusCode(status_code) ==
    LET parsed == PyInt(status_code)
    IN IF ~parsed.ok THEN Raised(ImproperlyConfigured("status_code"))
       ELSE IF ~(MinStatusCode <= parsed.n /\ parsed.n <= MaxStatusCode)
            THEN Raised(ImproperlyConfigured("status_code"))
            ELSE Returned(None)

-----------------------------------------------------------------------------
(* Route (openapi_tester/route.py) and resolve_path (openapi_tester/utils): *)
(* a route resolves to its parameterized template and the values of its     *)
(* parameters; get_path returns the template with one more parameter        *)
(* substituted on every call.                                               *)

ResolvePath(route) ==
    CASE route = "/items" ->
            [template |-> <<"items">>, parameters |-> <<>>, values |-> <<>>]
      [] route = "/items/42" ->
            [template |-> <<"items", "{id}">>, parameters |-> <<"{id}">>,
             values |-> <<"42">>]
      [] route = "/en/items/42" ->
            [template |-> <<"{lang}", "items", "{id}">>,
             parameters |-> <<"{lang}", "{id}">>, values |-> <<"en", "42">>]

GetRoute(route) == ResolvePath(route)

RECURSIVE JoinPath(_)
JoinPath(segments) ==
    IF segments = <<>> THEN "" ELSE "/" \o Head(segments) \o JoinPath(Tail(segments))

\* the path Route.get_path returns on its (counter + 1)-th call
GetPath(route_object, counter) ==
    LET Substituted(segment) ==
            IF \E i \in 1..counter : route_object.parameters[i] = segment
            THEN route_object.values[CHOOSE i \in 1..counter :
                                        route_object.parameters[i] = segment]
            ELSE segment
    IN JoinPath([i \in DOMAIN route_object.template |->
                    Substituted(route_object.template[i])])

-----------------------------------------------------------------------------
(* index_schema and get_response_schema_section.  An error message is kept  *)
(* as its parts: the key that was looked up (`variable`) and what the       *)
(* error_addon lists.                                                       *)

NoAddon ==
    [i18n |-> "", routes |-> {}, skip |-> "", methods |-> {}, responses |-> {},
     question |-> ""]

UndocumentedSchemaSectionError(variable, error_addon) ==
    [type |-> "UndocumentedSchemaSectionError", variable |-> variable,
     addon |-> error_addon]

\* index_schema(schema, variable, error_addon)
IndexSchema(schema_, variable, error_addon) ==
    IF Has(schema_, variable) THEN Returned(schema_.kv[variable])
    ELSE Raised(UndocumentedSchemaSectionError(variable, error_addon))

\* loaders.py:163-181.  settings.parameterized_i18n_name and the
\* skip_validation_warning keyword are the two fields of `hints`.
RouteError(paths_schema, route, hints) ==
    LET routes == DOMAIN paths_schema.kv
    IN [NoAddon EXCEPT
          !.i18n = IF routes # {} THEN hints.parameterized_i18n_name ELSE "",
          !.routes = routes,
          !.skip = IF hints.skip_validation_warning THEN route ELSE ""]

\* an `except` clause that keeps the first error instead
FirstError(error, e) == IF error = None THEN e ELSE error

\* loaders.py:193-194, `except UndocumentedSchemaSectionError as e: error = e`
CaughtError(error, e) == e

\* loaders.py:183-198, the loop over route_object.get_path().  tried: the
\* paths looked up, in order.
RECURSIVE RouteLoop(_, _, _, _, _, _)
RouteLoop(paths_schema, route_object, route_error, counter, error, tried) ==
    IF counter > Len(route_object.parameters)
    THEN [found |-> FALSE, route_schema |-> None, error |-> error, tried |-> tried]
    ELSE LET path == GetPath(route_object, counter)
             r == IndexSchema(paths_schema, path, route_error)
         IN IF r.outcome = "return"
            THEN [found |-> TRUE, route_schema |-> r.value, error |-> error,
                  tried |-> Append(tried, path)]
            ELSE RouteLoop(paths_schema, route_object, route_error, counter + 1,
                           CaughtError(error, r.exc), Append(tried, path))

\* the method hint of loaders.py:201 without its filter on PARAMETERS
AllKeysMethodError(route_schema) ==
    [NoAddon EXCEPT !.methods = {Upper(m) : m \in DOMAIN route_schema.kv}]

\* loaders.py:201-205
MethodError(route_schema) ==
    [NoAddon EXCEPT
       !.methods = {Upper(m) : m \in {k \in DOMAIN route_schema.kv :
                                          Upper(k) # "PARAMETERS"}}]

\* loaders.py:214-217
StatusCodeError(responses_schema, status_code) ==
    [NoAddon EXCEPT
       !.responses = DOMAIN responses_schema.kv,
       !.question = PyStr(status_code)]

\* A call's outcome with what the claims are stated about: `level` names the
\* index_schema call that raised, `tried` the paths the route loop looked up.
Outcome(r, level, tried) ==
    [outcome |-> r.outcome, value |-> r.value, exc |-> r.exc,
     level |-> IF r.outcome = "raise" THEN level ELSE "", tried |-> tried]

\* get_response_schema_section without the unwrapping of loaders.py:223-224
KeepContent(status_code_schema) == status_code_schema

\* loaders.py:222-226
UnwrapContent(status_code_schema) ==
    IF /\ Has(status_code_schema, "content")
       /\ Has(status_code_schema.kv["content"], "application/json")
    THEN status_code_schema.kv["content"].kv["application/json"]
    ELSE status_code_schema

\* get_response_schema_section from `# Index by paths` on (loaders.py:159-226),
\* schema_ being what get_schema returned
IndexResponse(schema_, route, method, status_code, hints) ==
    LET paths == IndexSchema(schema_, "paths", NoAddon)
    IN IF paths.outcome = "raise" THEN Outcome(paths, "paths", <<>>)
       ELSE
    LET loop == RouteLoop(paths.value, GetRoute(route),
                          RouteError(paths.value, route, hints), 0, None, <<>>)
    IN IF ~loop.found THEN Outcome(Raised(loop.error), "route", loop.tried)
       ELSE
    LET method_schema == IndexSchema(loop.route_schema, Lower(method.s),
                                     MethodError(loop.route_schema))
    IN IF method_schema.outcome = "raise"
       THEN Outcome(method_schema, "method", loop.tried)
       ELSE
    LET responses_schema == IndexSchema(method_schema.value, "responses", NoAddon)
    IN IF responses_schema.outcome = "raise"
       THEN Outcome(responses_schema, "responses", loop.tried)
       ELSE
    LET status_code_schema ==
            IndexSchema(responses_schema.value, PyStr(status_code),
                        StatusCodeError(responses_schema.value, status_code))
    IN IF status_code_schema.outcome = "raise"
       THEN Outcome(status_code_schema, "status_code", loop.tried)
       ELSE Outcome(IndexSchema(UnwrapContent(status_code_schema.value), "schema",
                                NoAddon),
                    "schema", loop.tried)

\* loaders.py:153-155
ValidateArguments(route, method, status_code) ==
    LET m == ValidateMethod(method)
        s == ValidateString(route, "route")
        c == ValidateStatusCode(status_code)
    IN IF m.outcome = "raise" THEN m
       ELSE IF s.outcome = "raise" THEN s
       ELSE c

-----------------------------------------------------------------------------
(* The documents a loader may be pointed at.                                *)

Info == Dict("title" :> Str("api") @@ "version" :> Str("1"))
StringSchema == Dict("type" :> Str("string"))
IntegerSchema == Dict("type" :> Str("integer"))
RefTo(name) == Dict("$ref" :> Str("#/definitions/" \o name))

\* response objects: a v2 response, a v3 response, and the shapes between
DirectResponse == Dict("schema" :> StringSchema)
ContentResponse ==
    Dict("content" :> Dict("application/json" :> Dict("schema" :> IntegerSchema)))
BothResponse ==
    Dict("content" :> Dict("application/json" :> Dict("schema" :> IntegerSchema))
         @@ "schema" :> StringSchema)
OtherContentResponse ==
    Dict("content" :> Dict("text/plain" :> Dict("schema" :> IntegerSchema)))
OtherContentDirectResponse ==
    Dict("content" :> Dict("text/plain" :> Dict("schema" :> IntegerSchema))
         @@ "schema" :> StringSchema)
BareResponse == Dict("description" :> Str("ok"))
EmptyContentResponse == Dict("content" :> Dict("application/json" :> EmptyDict))
RefResponse == Dict("schema" :> RefTo("A"))

ResponseObjects ==
    {DirectResponse, ContentResponse, BothResponse, OtherContentResponse,
     OtherContentDirectResponse, BareResponse, EmptyContentResponse}

Operation(responses) == Dict("responses" :> Dict(responses))
GetOnly(response) == Dict("get" :> Operation("200" :> response))
\* `parameters` holds a list in a real document; only its key is ever read
FullPathItem ==
    Dict("get" :> Operation("200" :> DirectResponse @@ "404" :> ContentResponse)
         @@ "post" :> Operation("200" :> ContentResponse)
         @@ "parameters" :> EmptyDict)
ParametersOnly == Dict("parameters" :> EmptyDict)

V2(paths) == Dict("swagger" :> Str("2.0") @@ "info" :> Info @@ "paths" :> Dict(paths))
V3(paths) == Dict("openapi" :> Str("3.0.0") @@ "info" :> Info @@ "paths" :> Dict(paths))
V2Definitions(paths, definitions) ==
    Dict("swagger" :> Str("2.0") @@ "info" :> Info @@ "paths" :> Dict(paths)
         @@ "definitions" :> Dict(definitions))

ValidDocuments ==
    {V2("/items" :> GetOnly(r)) : r \in ResponseObjects}
    \cup {V2("/items" :> FullPathItem), V2("/items" :> ParametersOnly),
          V2("/items" :> EmptyDict), V2(EmptyKV),
          V2("/items/{id}" :> FullPathItem), V2("/items/42" :> FullPathItem),
          V2("/{lang}/items/{id}" :> FullPathItem),
          V2("/en/items/{id}" :> FullPathItem),
          V2("/en/items/42" :> FullPathItem),
          V2("/items/{id}" :> GetOnly(DirectResponse)
             @@ "/items/42" :> GetOnly(ContentResponse)),
          V2("/items" :> FullPathItem @@ "/items/{id}" :> GetOnly(ContentResponse)),
          V3("/items" :> GetOnly(ContentResponse)),
          V3("/items/{id}" :> FullPathItem)}

\* documents with references: none recursive, one definition that refers to
\* itself from its items, and a reference to a definition that does not exist
ArraySchema(items) == Dict("type" :> Str("array") @@ "items" :> items)

ReferenceDocuments ==
    {V2Definitions("/items" :> GetOnly(RefResponse), "A" :> StringSchema),
     V2Definitions("/items" :> GetOnly(RefResponse), "A" :> ArraySchema(RefTo("A"))),
     V2Definitions("/items" :> GetOnly(RefResponse), "B" :> StringSchema)}

\* documents the validator rejects
InvalidDocuments ==
    {Dict("swagger" :> Str("2.0") @@ "info" :> Info),
     Dict("openapi" :> Str("3.0.0") @@ "info" :> Info),
     V2("/items" :> Dict("get" :> EmptyDict)),
     V3("/items" :> Dict("get" :> Operation(EmptyKV)))}

\* a static loader whose path is not a readable file: load_schema raises
Unreadable == [t |-> "unreadable"]

Documents ==
    ValidDocuments \cup ReferenceDocuments \cup InvalidDocuments \cup {Unreadable}

Routes == {Str("/items"), Str("/items/42"), Str("/en/items/42"), None}
MethodArguments ==
    {Str("get"), Str("GET"), Str("Post"), Str("post"), Str("put"), Str("patch"),
     Str("delete"), Str("options"), Str("head"), Str("trace"), None}
StatusCodeArguments ==
    {IntVal(99), IntVal(100), IntVal(200), IntVal(404), IntVal(505), IntVal(506),
     IntVal(999), Str("200"), Str("99"), Str("abc"), None}
NoHints == [parameterized_i18n_name |-> "", skip_validation_warning |-> FALSE]
Hints == {NoHints, [parameterized_i18n_name |-> "language", skip_validation_warning |-> TRUE]}

\* The calls made: every route with the usual methods and status codes, the
\* parameterized routes with the diagnostic hints set, and on one route every
\* method and every status code.
Call(r, m, c, h) == [route |-> r, method |-> m, status_code |-> c, hints |-> h]

Arguments ==
    {Call(r, m, c, NoHints) :
        r \in Routes, m \in {Str("get"), Str("GET"), Str("post")},
        c \in {IntVal(200), IntVal(404), Str("200")}}
    \cup {Call(r, Str("get"), IntVal(200), h) :
            r \in {Str("/items/42"), Str("/en/items/42")}, h \in Hints}
    \cup {Call(Str("/items"), m, c, NoHints) :
            m \in MethodArguments, c \in {IntVal(200), IntVal(506)}}
    \cup {Call(Str("/items"), m, c, NoHints) :
            m \in {Str("get"), Str("trace")}, c \in StatusCodeArguments}

\* how many times load_schema may run in a behaviour
MaxLoads == 2

-----------------------------------------------------------------------------
(* The loader: __init__, get_schema and get_response_schema_section.        *)

NoArgs == [route |-> None, method |-> None, status_code |-> None]
\* `cached` tells whether the call's get_schema found self.schema set
Idle == [op |-> "", args |-> NoArgs, cached |-> FALSE,
         r |-> Outcome(Returned(None), "", <<>>)]

\* get_schema() when self.schema is None and load_schema returned: the
\* attributes after set_schema and what get_schema returns or raises
Loaded(set) ==
    [schema |-> set.schema,
     original_schema |-> IF set.original_schema = None THEN original_schema
                         ELSE set.original_schema,
     validated |-> IF set.validations = 0 THEN validated ELSE set.validated,
     loads |-> loads + 1,
     validations |-> validations + set.validations,
     r |-> IF set.exc = "" THEN Returned(set.schema) ELSE Raised([type |-> set.exc])]

\* get_schema without the `if self.schema is None` test of loaders.py:100
AlwaysLoad ==
    IF disk = Unreadable
    THEN [schema |-> schema, original_schema |-> original_schema,
          validated |-> validated, loads |-> loads + 1,
          validations |-> validations,
          r |-> Raised(ImproperlyConfigured("path"))]
    ELSE Loaded(SetSchema(disk))

\* get_schema(): the attributes after the call and what the call returns
GetSchemaCall ==
    IF schema # None
    THEN [schema |-> schema, original_schema |-> original_schema,
          validated |-> validated, loads |-> loads, validations |-> validations,
          r |-> Returned(schema)]
    ELSE IF disk = Unreadable
    THEN [schema |-> schema, original_schema |-> original_schema,
          validated |-> validated, loads |-> loads + 1,
          validations |-> validations,
          r |-> Raised(ImproperlyConfigured("path"))]
    ELSE Loaded(SetSchema(disk))

Init ==
    /\ disk \in Documents
    /\ schema = None
    /\ original_schema = None
    /\ validated = None
    /\ loads = 0
    /\ validations = 0
    /\ result = Idle
    /\ pc = <<>>
    /\ local = <<>>

GetSchema ==
    /\ schema = None => loads < MaxLoads
    /\ \E g \in {GetSchemaCall} :
          /\ schema' = g.schema
          /\ original_schema' = g.original_schema
          /\ validated' = g.validated
          /\ loads' = g.loads
          /\ validations' = g.validations
          /\ result' = [op |-> "get_schema", args |-> NoArgs,
                        cached |-> schema # None,
                        r |-> Outcome(g.r, "", <<>>)]
    /\ UNCHANGED <<disk, pc, local>>

\* get_response_schema_section once its arguments are validated
Lookup(route, method, status_code, hints) ==
    \E g \in {GetSchemaCall} :
        /\ schema' = g.schema
        /\ original_schema' = g.original_schema
        /\ validated' = g.validated
        /\ loads' = g.loads
        /\ validations' = g.validations
        /\ result' =
              [op |-> "get_response_schema_section",
               args |-> [route |-> route, method |-> method,
                         status_code |-> status_code],
               cached |-> schema # None,
               r |-> IF g.r.outcome = "raise" THEN Outcome(g.r, "", <<>>)
                     ELSE IndexResponse(g.r.value, route.s, method, status_code,
                                        hints)]

GetResponseSchemaSection(route, method, status_code, hints) ==
    /\ schema = None => loads < MaxLoads
    /\ \E checked \in {ValidateArguments(route, method, status_code)} :
          IF checked.outcome = "raise"
          THEN /\ result' = [op |-> "get_response_schema_section",
                             args |-> [route |-> route, method |-> method,
                                       status_code |-> status_code],
                             cached |-> FALSE,
                             r |-> Outcome(checked, "", <<>>)]
               /\ UNCHANGED <<schema, original_schema, validated, loads, validations>>
          ELSE Lookup(route, method, status_code, hints)
    /\ UNCHANGED <<disk, pc, local>>

Next ==
    \/ GetSchema
    \/ \E a \in Arguments :
          GetResponseSchemaSection(a.route, a.method, a.status_code, a.hints)

Spec == Init /\ [][Next]_vars

-----------------------------------------------------------------------------
(* Properties of the loader and the route indexer.                          *)

SevenVerbs == {"GET", "POST", "PUT", "PATCH", "DELETE", "OPTIONS", "HEAD"}

\* the call's method is one of the seven verbs, compared case-insensitively
MethodAllowed(args) ==
    args.method.t = "str" /\ \E verb \in SevenVerbs : Upper(args.method.s) = verb

\* the call's status code is an integer (or the decimal text of one) in
\* [100, 505]
StatusCodeAllowed(args) ==
    /\ args.status_code.t \in {"int", "str"}
    /\ PyInt(args.status_code).ok
    /\ PyInt(args.status_code).n \in 100..505

\* the last call was get_response_schema_section with valid arguments and it
\* had a resolved schema to index
LookedUp ==
    /\ result.op = "get_response_schema_section"
    /\ MethodAllowed(result.args) /\ StatusCodeAllowed(result.args)
    /\ result.args.route.t = "str"
    /\ schema # None

\* the key of `paths` the route is documented under ("" when under none):
\* the candidate with the fewest parameters substituted
PathKey(tree, route) ==
    LET hits == {c \in 0..Len(GetRoute(route).parameters) :
                    Has(tree.kv["paths"], GetPath(GetRoute(route), c))}
    IN IF hits = {} THEN ""
       ELSE GetPath(GetRoute(route), CHOOSE c \in hits : \A d \in hits : c <= d)

\* paths[route][method].responses[str(status_code)] of the cached schema
ResponseObject ==
    PathGet(schema, <<"paths", PathKey(schema, result.args.route.s),
                      Lower(result.args.method.s), "responses",
                      PyStr(result.args.status_code)>>)

WrappedSchema == PathGet(ResponseObject.v, <<"content", "application/json", "schema">>)
DirectSchema == PathGet(ResponseObject.v, <<"schema">>)

ReturnedValue(v) == result.r.outcome = "return" /\ result.r.value = v

\* C1: a lookup with valid arguments returns exactly the schema S found at
\* paths[route][method].responses[str(status_code)].content['application/json'].schema,
\* or at paths[route][method].responses[str(status_code)].schema when the
\* response has no content wrapper; never the response object or the wrapper.
C1_LookupReturnsSchema ==
    (LookedUp /\ ResponseObject.ok) =>
        /\ WrappedSchema.ok => ReturnedValue(WrappedSchema.v)
        /\ (~Has(ResponseObject.v, "content") /\ DirectSchema.ok) =>
               ReturnedValue(DirectSchema.v)
        /\ result.r.outcome = "return" =>
               /\ result.r.value # ResponseObject.v
               /\ Has(ResponseObject.v, "content") =>
                      result.r.value # ResponseObject.v.kv["content"]

\* a parameterized route whose response is wrapped in content was looked up
C1_Witness ==
    /\ LookedUp /\ ResponseObject.ok /\ WrappedSchema.ok
    /\ result.args.route = Str("/items/42")
    /\ ReturnedValue(IntegerSchema)

RaisedUndocumented(level) ==
    /\ result.r.outcome = "raise"
    /\ result.r.exc.type = "UndocumentedSchemaSectionError"
    /\ result.r.level = level

\* C2: a lookup fails with UndocumentedSchemaSectionError when the route
\* path, the method or the status code is absent at its level, and the error
\* lists the keys present at that level: the documented routes, the methods
\* of the path item other than `parameters`, the documented status codes.
\* The levels `paths` and `responses` are present in every validated schema.
C2_AbsentKeyListsSiblings ==
    LookedUp =>
        /\ Has(schema, "paths")
        /\ LET paths == schema.kv["paths"]
               key == PathKey(schema, result.args.route.s)
               method == Lower(result.args.method.s)
               code == PyStr(result.args.status_code)
           IN IF key = ""
              THEN /\ RaisedUndocumented("route")
                   /\ result.r.exc.addon.routes = DOMAIN paths.kv
              ELSE IF ~Has(paths.kv[key], method)
              THEN /\ RaisedUndocumented("method")
                   /\ result.r.exc.variable = method
                   /\ result.r.exc.addon.methods =
                          {Upper(k) : k \in DOMAIN paths.kv[key].kv \ {"parameters"}}
              ELSE /\ Has(paths.kv[key].kv[method], "responses")
                   /\ LET responses == paths.kv[key].kv[method].kv["responses"]
                      IN IF ~Has(responses, code)
                         THEN /\ RaisedUndocumented("status_code")
                              /\ result.r.exc.variable = code
                              /\ result.r.exc.addon.responses = DOMAIN responses.kv
                              /\ result.r.exc.addon.responses # {}
                         ELSE result.r.level \in {"", "schema"}

\* an undocumented 404 was asked of an operation that documents only 200
C2_Witness ==
    /\ LookedUp /\ RaisedUndocumented("status_code")
    /\ result.args.status_code = IntVal(404)
    /\ result.r.exc.addon.responses = {"200"}

RaisedConfigurationError(about) ==
    /\ result.r.outcome = "raise"
    /\ result.r.exc.type = "ImproperlyConfigured"
    /\ result.r.exc.about \in about

\* C3: get_response_schema_section raises ImproperlyConfigured whenever the
\* method is not one of the seven verbs (case-insensitively) or the status
\* code is not an integer in [100, 505], and never raises it from this
\* validation when both are.
C3_MethodAndStatusValidated ==
    result.op = "get_response_schema_section" =>
        IF MethodAllowed(result.args) /\ StatusCodeAllowed(result.args)
        THEN ~RaisedConfigurationError({"method", "status_code"})
        ELSE RaisedConfigurationError({"method", "status_code"})

\* status code 506 was refused although the method was allowed
C3_Witness ==
    /\ result.op = "get_response_schema_section"
    /\ MethodAllowed(result.args)
    /\ result.args.status_code = IntVal(506)
    /\ RaisedConfigurationError({"status_code"})

\* C4: once a load has succeeded, load_schema and the resolve-then-validate
\* step have run exactly once, every later call returns the cached schema
\* without loading, and schema and original_schema never change again.
C4_LoadedOnce ==
    /\ [](schema # None =>
            loads = 1 /\ validations = 1 /\ original_schema # None)
    /\ [][schema # None =>
            /\ schema' = schema
            /\ original_schema' = original_schema
            /\ loads' = loads /\ validations' = validations
            /\ result'.op = "get_schema" => result'.r.value = schema
            /\ result'.r.exc.type \notin {"OpenAPISchemaError", "OpenAPIValidationError"}]_vars

\* a call found the schema cached, after exactly one load
C4_Witness ==
    /\ result.op = "get_schema" /\ result.cached
    /\ ReturnedValue(schema) /\ schema # None
    /\ loads = 1 /\ validations = 1

RouteParameters == Len(GetRoute(result.args.route.s).parameters)

\* the attempts of the route loop: at most 1 + (number of route
\* parameters), one more parameter substituted on each, stopping at the
\* first that succeeds; the call raises at this level only when all failed
RouteAttempts ==
    LET tried == result.r.tried
        paths == schema.kv["paths"]
    IN /\ Len(tried) \in 1..(1 + RouteParameters)
       /\ \A i \in DOMAIN tried :
              /\ tried[i] = GetPath(GetRoute(result.args.route.s), i - 1)
              /\ i < Len(tried) => ~Has(paths, tried[i])
       /\ IF Has(paths, tried[Len(tried)])
          THEN result.r.level # "route"
          ELSE Len(tried) = 1 + RouteParameters /\ RaisedUndocumented("route")

\* C8 as stated: ... and the error raised is the one the first failed
\* attempt produced.
C8_FirstErrorRaised ==
    LookedUp =>
        /\ RouteAttempts
        /\ RaisedUndocumented("route") =>
               result.r.exc.variable = result.r.tried[1]

\* C8: when the route path is absent, the lookup makes at most 1 + (number
\* of route parameters) attempts, one more parameter substituted on each,
\* stops at the first that succeeds, raises UndocumentedSchemaSectionError
\* only after all failed, and the error raised is the one the last failed
\* attempt produced.
C8_LastErrorRaised ==
    LookedUp =>
        /\ RouteAttempts
        /\ RaisedUndocumented("route") =>
               result.r.exc.variable = result.r.tried[Len(result.r.tried)]

\* a route with two parameters failed after three attempts
C8_Witness ==
    /\ LookedUp /\ RaisedUndocumented("route")
    /\ Len(result.r.tried) = 3
    /\ result.r.exc.variable = "/en/items/42"

\* C9: the raw schema is never modified: original_schema is structurally
\* equal to what load_schema returned.
C9_RawSchemaUnmodified ==
    original_schema # None => original_schema = disk

-----------------------------------------------------------------------------
(* dereference_schema on its own: a document's definitions are resolved     *)
(* once, and the result is resolved again, as set_schema does.              *)

\* a schema object whose two keywords hold schemas
PairSchema(a, b) == Dict("items" :> a @@ "additionalProperties" :> b)

\* what definition A may be: no reference, a reference and nothing else, a
\* reference one or two levels below, two references, a dangling reference
DefinitionBodies ==
    {StringSchema, RefTo("A"), RefTo("B"), RefTo("Z"),
     ArraySchema(RefTo("A")), ArraySchema(RefTo("B")),
     ArraySchema(ArraySchema(RefTo("A"))),
     PairSchema(RefTo("A"), RefTo("B")), PairSchema(RefTo("A"), RefTo("A"))}

\* what a definition A never refers to may be
OtherBodies == {StringSchema, RefTo("B"), RefTo("Z"), ArraySchema(RefTo("B"))}

Definitions(kv) == Dict("definitions" :> Dict(kv))

\* two definitions that refer to each other
MutuallyRecursive ==
    {Definitions("A" :> RefTo("B") @@ "B" :> RefTo("A")),
     Definitions("A" :> ArraySchema(RefTo("B")) @@ "B" :> RefTo("A"))}

DefinitionDocuments ==
    {Definitions("A" :> a) : a \in DefinitionBodies}
    \cup {Definitions("A" :> a @@ "B" :> b) : a \in DefinitionBodies, b \in OtherBodies}
    \cup MutuallyRecursive

NoCalls == [op |-> "dereference_schema", calls |-> 0, first |-> None,
            second |-> None, raw |-> None, exc |-> NoExc]

InitResolve ==
    /\ disk \in DefinitionDocuments
    /\ schema = None
    /\ original_schema = None
    /\ validated = None
    /\ loads = 0
    /\ validations = 0
    /\ result = NoCalls
    /\ pc = "start"
    /\ local = [raw |-> disk, d1 |-> None]

\* dereference_schema(raw): result.first is the tree returned, result.raw
\* the argument's value after the call
DereferenceOnce ==
    /\ pc = "start"
    /\ \E r1 \in {DereferenceSchema(local, "raw")} :
          IF r1.err
          THEN /\ pc' = "failed"
               /\ result' = [result EXCEPT !.calls = 1,
                                !.exc = [type |-> "OpenAPISchemaError"]]
               /\ local' = local
          ELSE /\ pc' = "once"
               /\ local' = AfterFirstDereference(r1)
               /\ result' = [result EXCEPT !.calls = 1,
                                !.first = Materialize(r1.st, r1.v),
                                !.raw = r1.st.raw]
    /\ UNCHANGED <<disk, schema, original_schema, validated, loads, validations>>

\* dereference_schema(dereference_schema(raw))
DereferenceTwice ==
    /\ pc = "once"
    /\ \E r2 \in {DereferenceSchema(local, "d1")} :
          IF r2.err
          THEN /\ pc' = "failed"
               /\ result' = [result EXCEPT !.calls = 2,
                                !.exc = [type |-> "OpenAPISchemaError"]]
               /\ local' = local
          ELSE /\ pc' = "twice"
               /\ local' = r2.st
               /\ result' = [result EXCEPT !.calls = 2,
                                !.second = Materialize(r2.st, r2.v),
                                !.raw = r2.st.raw]
    /\ UNCHANGED <<disk, schema, original_schema, validated, loads, validations>>

NextResolve == DereferenceOnce \/ DereferenceTwice

SpecResolve == InitResolve /\ [][NextResolve]_vars

\* the reference strings found in a tree
RECURSIVE RefsIn(_)
RefsIn(v) ==
    IF ~IsDict(v) THEN {}
    ELSE (IF IsRefNode(v) THEN {v.kv["$ref"].s} ELSE {})
         \cup UNION {RefsIn(v.kv[k]) : k \in DOMAIN v.kv}

RECURSIVE HasSentinel(_)
HasSentinel(v) ==
    IsDict(v) /\ (v = Sentinel \/ \E k \in DOMAIN v.kv : HasSentinel(v.kv[k]))

\* the definitions that refer to themselves, by their own $ref or from a
\* nested child
SelfReferential(doc) ==
    {name \in DOMAIN doc.kv["definitions"].kv :
        "#/definitions/" \o name \in RefsIn(doc.kv["definitions"].kv[name])}

\* every reference of the document is a definition's reference to itself
OnlySelfReferences(doc) ==
    /\ SelfReferential(doc) # {}
    /\ \A name \in DOMAIN doc.kv["definitions"].kv :
          RefsIn(doc.kv["definitions"].kv[name]) \subseteq {"#/definitions/" \o name}

\* C5: for a schema whose definitions refer to themselves, dereference_schema
\* returns, and in its result every cyclic edge is the sentinel: no $ref to
\* the cycle's fragment remains.
C5_CyclicEdgeReplaced ==
    (result.calls >= 1 /\ OnlySelfReferences(disk)) =>
        /\ pc # "failed"
        /\ RefsIn(result.first) = {}
        /\ HasSentinel(result.first)

\* C6: dereferencing a dereferenced schema again yields the same tree.
C6_Idempotent ==
    result.calls = 2 => (pc = "twice" /\ result.second = result.first)

-----------------------------------------------------------------------------
(* create_dict_from_schema: an example value built from a response schema   *)

\* a python list; dicts and scalars are the JSON values above
List(items) == [t |-> "list", items |-> items]

KeyError(key) == [type |-> "KeyError", key |-> key]
ValueError == [type |-> "ValueError"]

\* utils.type_placeholder_value: one fixed value per declared type
TypePlaceholderValue(type) == [t |-> "placeholder", type |-> type]

\* the order in which a properties dict yields its keys
PropertyOrder == <<"", "name", "tags">>
Items(kv) == SelectSeq(PropertyOrder, LAMBDA k : k \in DOMAIN kv)

RECURSIVE IterateSchemaDict(_), IterateSchemaList(_), IterateProperties(_, _, _)

\* the for loop of _iterate_schema_dict over the keys still to visit
IterateProperties(properties, keys, parsed_schema) ==
    IF keys = <<>> THEN Returned(Dict(parsed_schema))
    ELSE LET key == Head(keys)
             value == properties[key]
         IN  IF ~IsDict(value) THEN Raised(ValueError)
             ELSE IF ~Has(value, "type") THEN Raised(KeyError("type"))
             ELSE LET parsed ==
                          IF Has(value, "example")
                          THEN Returned(value.kv["example"])
                          ELSE IF value.kv["type"] = Str("object")
                          THEN IterateSchemaDict(value)
                          ELSE IF value.kv["type"] = Str("array")
                          THEN IterateSchemaList(value)
                          ELSE Returned(TypePlaceholderValue(value.kv["type"]))
                  IN  IF parsed.outcome = "raise" THEN parsed
                      ELSE IterateProperties(properties, Tail(keys),
                                             parsed_schema @@ (key :> parsed.value))

IterateSchemaDict(schema_object) ==
    IF Has(schema_object, "properties")
    THEN IterateProperties(schema_object.kv["properties"].kv,
                           Items(schema_object.kv["properties"].kv), EmptyKV)
    ELSE IF ~Has(schema_object, "additionalProperties")
    THEN Raised(KeyError("additionalProperties"))
    ELSE IterateProperties("" :> schema_object.kv["additionalProperties"],
                           <<"">>, EmptyKV)

IterateSchemaList(schema_array) ==
    IF ~Has(schema_array, "items") THEN Raised(KeyError("items"))
    ELSE LET raw_items == schema_array.kv["items"]
         IN  IF ~Has(raw_items, "type") THEN Raised(KeyError("type"))
             ELSE LET parsed ==
                          IF Has(raw_items, "example")
                          THEN Returned(raw_items.kv["example"])
                          ELSE IF raw_items.kv["type"] = Str("object")
                          THEN IterateSchemaDict(raw_items)
                          ELSE IF raw_items.kv["type"] = Str("array")
                          THEN IterateSchemaList(raw_items)
                          ELSE Returned(TypePlaceholderValue(raw_items.kv["type"]))
                  IN  IF parsed.outcome = "raise" THEN parsed
                      ELSE Returned(List(<<parsed.value>>))

CreateDictFromSchema(schema_node) ==
    IF ~Has(schema_node, "type") THEN Raised(KeyError("type"))
    ELSE IF Has(schema_node, "example") THEN Returned(schema_node.kv["example"])
    ELSE IF schema_node.kv["type"] = Str("array") THEN IterateSchemaList(schema_node)
    ELSE IF schema_node.kv["type"] = Str("object") THEN IterateSchemaDict(schema_node)
    ELSE Returned(TypePlaceholderValue(schema_node.kv["type"]))

\* response schemas handed to create_dict_from_schema
Example(v) == "example" :> v
Typed(type) == "type" :> Str(type)
ObjectSchema(properties) == Dict(Typed("object") @@ "properties" :> Dict(properties))
MapSchema(value) == Dict(Typed("object") @@ "additionalProperties" :> value)

\* nodes without children: scalars with and without an example, an example
\* and no type, an object that carries its own example, an empty node
LeafSchemas ==
    {StringSchema, IntegerSchema,
     Dict(Typed("string") @@ Example(Str("Alice"))),
     Dict(Example(Str("Alice"))),
     Dict(Typed("object") @@ "properties" :> Dict("name" :> StringSchema)
          @@ Example(Dict("name" :> Str("Bob")))),
     EmptyDict}

\* nodes the synthesizer cannot walk: no properties and no
\* additionalProperties, no items, a property that is not a schema
BrokenSchemas ==
    {Dict(Typed("object")), Dict(Typed("array")),
     ObjectSchema("name" :> Str("Alice"))}

Wrap(nodes) ==
    {ObjectSchema("name" :> n) : n \in nodes}
    \cup {MapSchema(n) : n \in nodes}
    \cup {ArraySchema(n) : n \in nodes}

TwoProperties ==
    {ObjectSchema("name" :> n @@ "tags" :> m) :
        n \in LeafSchemas, m \in {ArraySchema(StringSchema), Dict(Example(Str("Alice")))}}

ResponseSchemas ==
    LeafSchemas \cup BrokenSchemas
    \cup Wrap(LeafSchemas \cup BrokenSchemas)
    \cup Wrap(Wrap(LeafSchemas))
    \cup TwoProperties

NotCalled == [op |-> "create_dict_from_schema", r |-> Returned(None)]

InitSynth ==
    /\ disk = None
    /\ schema = None
    /\ original_schema = None
    /\ validated = None
    /\ loads = 0
    /\ validations = 0
    /\ result = NotCalled
    /\ pc = "start"
    /\ local \in {[schema |-> s] : s \in ResponseSchemas}

CreateDict ==
    /\ pc = "start"
    /\ pc' = "done"
    /\ result' = [result EXCEPT !.r = CreateDictFromSchema(local.schema)]
    /\ UNCHANGED <<disk, schema, original_schema, validated, loads,
                   validations, local>>

NextSynth == CreateDict

SpecSynth == InitSynth /\ [][NextSynth]_vars

\* the four synthesis rules, applied at every node
RECURSIVE Synthesize(_)
Synthesize(node) ==
    IF Has(node, "example") THEN node.kv["example"]
    ELSE IF node.kv["type"] = Str("object")
    THEN IF Has(node, "properties")
         THEN Dict([k \in DOMAIN node.kv["properties"].kv |->
                       Synthesize(node.kv["properties"].kv[k])])
         ELSE Dict("" :> Synthesize(node.kv["additionalProperties"]))
    ELSE IF node.kv["type"] = Str("array")
    THEN List(<<Synthesize(node.kv["items"])>>)
    ELSE TypePlaceholderValue(node.kv["type"])

\* the rules give the node a value: every node they visit declares an
\* example or a type, and has the children its type is walked through
RECURSIVE RulesApply(_)
RulesApply(node) ==
    /\ IsDict(node)
    /\ \/ Has(node, "example")
       \/ /\ Has(node, "type")
          /\ node.kv["type"] = Str("object") =>
               IF Has(node, "properties")
               THEN \A k \in DOMAIN node.kv["properties"].kv :
                        RulesApply(node.kv["properties"].kv[k])
               ELSE Has(node, "additionalProperties")
                    /\ RulesApply(node.kv["additionalProperties"])
          /\ node.kv["type"] = Str("array") =>
               Has(node, "items") /\ RulesApply(node.kv["items"])

\* C7: create_dict_from_schema returns the value the four synthesis rules
\* define: an example verbatim whatever else the node declares, else a
\* mapping for an object, a one-element sequence for an array, the
\* placeholder of its type for a scalar.
C7_SynthesisRules ==
    (pc = "done" /\ RulesApply(local.schema)) =>
        result.r = Returned(Synthesize(local.schema))

\* every node the rules visit declares a type
RECURSIVE AllTyped(_)
AllTyped(node) ==
    /\ Has(node, "type")
    /\ Has(node, "example") \/
         /\ Has(node, "properties") =>
               \A k \in DOMAIN node.kv["properties"].kv :
                   AllTyped(node.kv["properties"].kv[k])
         /\ (~Has(node, "properties") /\ Has(node, "additionalProperties")) =>
               AllTyped(node.kv["additionalProperties"])
         /\ Has(node, "items") => AllTyped(node.kv["items"])

\* where every visited node declares a type, the rules are what is returned
SynthesisRulesWhereTyped ==
    (pc = "done" /\ RulesApply(local.schema) /\ AllTyped(local.schema)) =>
        result.r = Returned(Synthesize(local.schema))

-----------------------------------------------------------------------------
(* get_schema called by two threads on one loader, without a lock. Each     *)
(* thread's load_schema returns a dict of its own; self.schema and          *)
(* self.original_schema are shared. A step is one statement of get_schema   *)
(* or set_schema.                                                           *)

Threads == {1, 2}

\* self.original_schema refers to the dict the thread's load_schema returned
RawOf(thread) == [t |-> "ref", thread |-> thread]

\* a test at loaders.py:100 that never sends the caller to load_schema
NeverNone(s) == FALSE

\* loaders.py:100
SchemaIsNone(s) == s = None

NoObjects == [raw |-> None, d1 |-> None]

InitConc ==
    /\ disk \in Documents
    /\ schema = None
    /\ original_schema = None
    /\ validated = None
    /\ loads = 0
    /\ validations = 0
    /\ result = [op |-> "get_schema", r |-> [t \in Threads |-> Returned(None)]]
    /\ pc = [t \in Threads |-> "check"]
    /\ local = [t \in Threads |-> NoObjects]

Raise(t, e) ==
    /\ pc' = [pc EXCEPT ![t] = "raised"]
    /\ result' = [result EXCEPT !.r[t] = Raised(e)]

\* loaders.py:100: if self.schema is None
Check(t) ==
    /\ pc[t] = "check"
    /\ pc' = [pc EXCEPT ![t] = IF SchemaIsNone(schema) THEN "load" ELSE "return"]
    /\ UNCHANGED <<disk, schema, original_schema, validated, loads,
                   validations, result, local>>

\* loaders.py:101: self.load_schema()
LoadSchema(t) ==
    /\ pc[t] = "load"
    /\ loads' = loads + 1
    /\ IF disk = Unreadable
       THEN /\ Raise(t, ImproperlyConfigured("path"))
            /\ local' = local
       ELSE /\ pc' = [pc EXCEPT ![t] = "dereference"]
            /\ local' = [local EXCEPT ![t] = [raw |-> disk, d1 |-> None]]
            /\ result' = result
    /\ UNCHANGED <<disk, schema, original_schema, validated, validations>>

\* loaders.py:129: dereferenced_schema = self.dereference_schema(schema)
FirstDereference(t) ==
    /\ pc[t] = "dereference"
    /\ \E r1 \in {DereferenceSchema(local[t], "raw")} :
          IF r1.err
          THEN /\ Raise(t, [type |-> "OpenAPISchemaError"])
               /\ local' = local
          ELSE /\ pc' = [pc EXCEPT ![t] = "validate"]
               /\ local' = [local EXCEPT ![t] = AfterFirstDereference(r1)]
               /\ result' = result
    /\ UNCHANGED <<disk, schema, original_schema, validated, loads, validations>>

\* loaders.py:130: self.validate_schema(dereferenced_schema)
Validate(t) ==
    /\ pc[t] = "validate"
    /\ \E dereferenced_schema \in {Materialize(local[t], local[t].d1)} :
          /\ validated' = dereferenced_schema
          /\ validations' = validations + 1
          /\ IF ValidateSchema(dereferenced_schema)
             THEN /\ pc' = [pc EXCEPT ![t] = "original"]
                  /\ result' = result
             ELSE Raise(t, [type |-> "OpenAPIValidationError"])
    /\ UNCHANGED <<disk, schema, original_schema, loads, local>>

\* loaders.py:131: self.original_schema = schema
AssignOriginal(t) ==
    /\ pc[t] = "original"
    /\ original_schema' = RawOf(t)
    /\ pc' = [pc EXCEPT ![t] = "cache"]
    /\ UNCHANGED <<disk, schema, validated, loads, validations, result, local>>

\* loaders.py:132: self.schema = self.dereference_schema(dereferenced_schema)
SecondDereference(t) ==
    /\ pc[t] = "cache"
    /\ \E r2 \in {DereferenceSchema(local[t], "d1")} :
          /\ local' = [local EXCEPT ![t] = r2.st]
          /\ IF r2.err
             THEN /\ Raise(t, [type |-> "OpenAPISchemaError"])
                  /\ schema' = schema
             ELSE /\ schema' = Materialize(r2.st, r2.v)
                  /\ pc' = [pc EXCEPT ![t] = "return"]
                  /\ result' = result
    /\ UNCHANGED <<disk, original_schema, validated, loads, validations>>

\* loaders.py:102: return self.schema
Return(t) ==
    /\ pc[t] = "return"
    /\ pc' = [pc EXCEPT ![t] = "done"]
    /\ result' = [result EXCEPT !.r[t] = Returned(schema)]
    /\ UNCHANGED <<disk, schema, original_schema, validated, loads,
                   validations, local>>

NextConc ==
    \E t \in Threads :
        \/ Check(t)
        \/ LoadSchema(t)
        \/ FirstDereference(t)
        \/ Validate(t)
        \/ AssignOriginal(t)
        \/ SecondDereference(t)
        \/ Return(t)

SpecConc == InitConc /\ [][NextConc]_vars

\* what one get_schema call on a fresh loader, running alone, leaves and gives
SequentialCall ==
    IF disk = Unreadable
    THEN [exc |-> "ImproperlyConfigured", schema |-> None, original_schema |-> None]
    ELSE [exc |-> SetSchema(disk).exc, schema |-> SetSchema(disk).schema,
          original_schema |-> SetSchema(disk).original_schema]

\* the dict self.original_schema refers to
OriginalSchemaValue ==
    IF original_schema = None THEN None ELSE local[original_schema.thread].raw

Finished(t) == pc[t] \in {"done", "raised"}

\* C10: under every interleaving of two unlocked get_schema calls, a call
\* that returns gives the schema a sequential call gives and never None, a
\* call raises only what the sequential call raises, self.schema is None or
\* that schema at every step, and once both calls have finished self.schema
\* and self.original_schema are what the sequential call leaves.
C10_ConcurrentCallsEquivalent ==
    \E seq \in {SequentialCall} :
        /\ \A t \in Threads :
              /\ pc[t] = "done" =>
                    /\ seq.exc = ""
                    /\ result.r[t] = Returned(seq.schema)
                    /\ result.r[t].value # None
              /\ pc[t] = "raised" => result.r[t].exc.type = seq.exc
        /\ schema \in {None, seq.schema}
        /\ (\A t \in Threads : Finished(t)) =>
              /\ schema = seq.schema
              /\ OriginalSchemaValue = seq.original_schema

\* both threads found the cache empty, both loaded and resolved a schema
\* with a recursive definition, and both returned
C10_Witness ==
    /\ \A t \in Threads : pc[t] = "done" /\ result.r[t].value = schema
    /\ loads = 2
    /\ validations = 2
    /\ HasSentinel(schema)
    /\ original_schema = RawOf(1)

-----------------------------------------------------------------------------
(* A document the validator rejects, looked up more than once.              *)

\* C11: a document that fails meta-schema validation is loaded and validated
\* at most once on one loader, however many lookups follow: the validation
\* error is raised at load time and not again on each lookup.
C11_InvalidValidatedOnce ==
    disk \in InvalidDocuments => (loads <= 1 /\ validations <= 1)

====
